---- MODULE Spec2Model ----
(***************************************************************************)
(* UnrealDevHelper.py: the log channel (queue.Queue + log + the periodic   *)
(* poll), run_command_stream, the artifact cleanup and the two pipelines   *)
(* (run_build_process, run_UAT_build_process) with the UI handlers that    *)
(* start them.                                                             *)
(*                                                                         *)
(* A log message is a tuple of strings: a fixed text followed by the       *)
(* values formatted into it.  A line of process output is a tuple of       *)
(* characters.                                                             *)
(***************************************************************************)
EXTENDS Integers, Sequences, FiniteSets, TLC

VARIABLES
    log_queue,      \* log_queue = queue.Queue(): the messages waiting, oldest first
    poll_pc,        \* the consumer: "armed" (after(100, ...) pending) or "draining"
    text_widget,    \* the messages the consumer has taken out and inserted, in order
    enqueued,       \* history: every put, in the order the queue's lock served them
    status_var,     \* MobileStyleApp.status_var
    pc,             \* per thread: the position in its code
    frame,          \* per thread: arguments and locals of the running call
    proc,           \* per thread: the child process of run_command_stream
    emitted,        \* per thread: what it has logged since its current step began
    fs,             \* the paths that exist under the working directory
    undeletable,    \* the paths whose deletion the OS refuses
    unlistable,     \* the directories whose listing the OS refuses
    listdir_reversed, \* whether directory listings come in descending name order
    links,          \* the directory entries that are links to a directory outside
    last_clean,     \* the record of the last cleanup: what it found, tried and visited
    compile_btn,    \* MobileStyleApp.compile_btn's state: "normal" or "disabled"
    package_btn,    \* MobileStyleApp.package_btn's state
    input,          \* the arguments of a function called on its own
    output          \* what that call returned, once it has

vars == <<log_queue, poll_pc, text_widget, enqueued, status_var, pc, frame, proc, emitted,
          fs, undeletable, unlistable, listdir_reversed, links, last_clean, compile_btn,
          package_btn, input, output>>
os_vars == <<fs, undeletable, unlistable, listdir_reversed, links, last_clean>>
ui_vars == <<compile_btn, package_btn>>
fn_vars == <<input, output>>

-----------------------------------------------------------------------------
(* Bounds *)

MaxMsgs == 4        \* messages the test producers enqueue in all
MaxLines == 2       \* lines a child process writes
MaxQueue == 1       \* a worker takes its next step only while fewer are waiting

Producers == {"t1", "t2"}
Pipelines == {"compile", "package"}
Workers == {"stream", "cleaner"} \cup Pipelines
Threads == Producers \cup Workers

NL == "\n"
RawLines == {<<"a", NL>>, <<"b", NL>>, <<NL>>, <<"b">>}
ToolLines == {<<"a", NL>>}
MaxToolLines == 1   \* lines a build tool writes in the pipeline specification
ExitCodes == {0, 1, 2}
ToolExitCodes == {0, 1}

-----------------------------------------------------------------------------
(* Log channel *)

\* The message number n of producer t.
Msg(t, n) == <<t, ToString(n)>>

\* A channel that is not FIFO: put at the head (a faulty variant of log).
log_at_head(message) == log_queue' = <<message>> \o log_queue

\* log(message): log_queue.put(message), at the tail.
log(message) == log_queue' = Append(log_queue, message)

\* How many messages thread t has put so far.
SentBy(t) == Cardinality({i \in 1..Len(enqueued) : enqueued[i].by = t})

\* A producer thread calls log() with its next message.
ProducerLog(t) ==
    /\ t \in Producers
    /\ Len(enqueued) < MaxMsgs
    /\ log(Msg(t, SentBy(t) + 1))
    /\ enqueued' = Append(enqueued, [by |-> t, msg |-> Msg(t, SentBy(t) + 1)])
    /\ UNCHANGED <<poll_pc, text_widget, status_var, pc, frame, proc, emitted, os_vars, ui_vars,
                   fn_vars>>

\* The Tk timer fires and poll_log_queue_colored enters its while loop.
PollFire ==
    /\ poll_pc = "armed"
    /\ poll_pc' = "draining"
    /\ UNCHANGED <<log_queue, text_widget, enqueued, fn_vars, status_var, pc, frame, proc, emitted, os_vars, ui_vars>>

\* message = log_queue.get_nowait() on a non-empty queue: the head leaves the queue.
get_nowait == log_queue' = Tail(log_queue)

\* Line 80 in the while loop, on a non-empty queue.
Take ==
    /\ poll_pc = "draining"
    /\ log_queue # <<>>
    /\ get_nowait
    /\ UNCHANGED <<poll_pc, enqueued, fn_vars, status_var, pc, frame, proc, emitted, os_vars, ui_vars>>

\* One turn of the while loop: take the head and insert it in the widget.
PollGet ==
    /\ Take
    /\ text_widget' = Append(text_widget, Head(log_queue))

\* The same turn where the widget's content is not tracked (the pipeline specification,
\* whose runs repeat without end).
PollTake ==
    /\ Take
    /\ UNCHANGED text_widget

\* A faulty variant of PollEmpty: the loop ends and the poll is not scheduled again.
PollEmptyLast ==
    /\ poll_pc = "draining"
    /\ log_queue = <<>>
    /\ poll_pc' = "stopped"
    /\ UNCHANGED <<log_queue, text_widget, enqueued, fn_vars, status_var, pc, frame, proc, emitted, os_vars, ui_vars>>

\* A faulty variant of PollEmpty: the loop ends whatever the queue holds.
PollEmptyEarly ==
    /\ poll_pc = "draining"
    /\ poll_pc' = "armed"
    /\ UNCHANGED <<log_queue, text_widget, enqueued, fn_vars, status_var, pc, frame, proc, emitted, os_vars, ui_vars>>

\* get_nowait() raises queue.Empty: the loop ends and the poll re-arms itself.
PollEmpty ==
    /\ poll_pc = "draining"
    /\ log_queue = <<>>
    /\ poll_pc' = "armed"
    /\ UNCHANGED <<log_queue, text_widget, enqueued, fn_vars, status_var, pc, frame, proc, emitted, os_vars, ui_vars>>

-----------------------------------------------------------------------------
(* run_command_stream *)

\* The log message that is the plain text s.
Text(s) == <<s>>

\* A thread that runs no call, and a thread without a child process.
NoFrame == [command |-> "", start_message |-> "", finish_message |-> "", ret |-> "",
            exc |-> "", uproject_path |-> "", engine_version |-> "", project_name |-> "",
            unreal_engine_path |-> "", trail |-> <<>>]
NoProc == [state |-> "none", pipe |-> <<>>, written |-> <<>>, returncode |-> 0]

\* A child whose caller has left the try block: nobody reads or awaits it any more.
Abandoned == [NoProc EXCEPT !.state = "abandoned"]

\* What a command may write on its merged stdout/stderr, and how many lines.
Stdout(command) == IF command = "cmd" THEN RawLines ELSE ToolLines
MaxWrites(command) == IF command = "cmd" THEN MaxLines ELSE MaxToolLines
ExitCodesOf(command) == IF command = "cmd" THEN ExitCodes ELSE ToolExitCodes

\* The thread w is inside run_command_stream (the child is followed only that long).
InCall(w) == pc[w] \in {"rcs_popen", "rcs_read", "rcs_wait"}

\* line.rstrip("\n"): every trailing newline removed.
RECURSIVE rstrip(_)
rstrip(line) ==
    IF line # <<>> /\ line[Len(line)] = NL
    THEN rstrip(SubSeq(line, 1, Len(line) - 1))
    ELSE line

\* log(message) by worker w, recorded in what w has logged in its current step.
LogBy(w, message) ==
    /\ log(message)
    /\ emitted' = [emitted EXCEPT ![w] = Append(@, message)]

\* A worker step that logs waits while MaxQueue messages are pending (model bound).
Room == Len(log_queue) < MaxQueue

\* Lines 99-100: status_var.set(start_message); log(start_message).  The call starts
\* without a child and without an error.
RcsStart(w) ==
    /\ pc[w] = "rcs_start"
    /\ Room
    /\ status_var' = frame[w].start_message
    /\ log(Text(frame[w].start_message))
    /\ emitted' = [emitted EXCEPT ![w] = <<Text(frame[w].start_message)>>]
    /\ proc' = [proc EXCEPT ![w] = NoProc]
    /\ frame' = [frame EXCEPT ![w].exc = ""]
    /\ pc' = [pc EXCEPT ![w] = "rcs_popen"]
    /\ UNCHANGED <<poll_pc, text_widget, enqueued, fn_vars, os_vars, ui_vars>>

\* Lines 102-109: subprocess.Popen(...) starts the child, or raises.
RcsPopen(w) ==
    /\ pc[w] = "rcs_popen"
    /\ \/ /\ proc' = [proc EXCEPT ![w].state = "running"]
          /\ pc' = [pc EXCEPT ![w] = "rcs_read"]
          /\ frame' = [frame EXCEPT ![w].trail = Append(@, "Popen " \o frame[w].command)]
       \/ /\ frame' = [frame EXCEPT ![w].exc = "OSError",
                                    ![w].trail = Append(@, "Popen " \o frame[w].command)]
          /\ pc' = [pc EXCEPT ![w] = "rcs_except"]
          /\ UNCHANGED proc
    /\ UNCHANGED <<log_queue, poll_pc, text_widget, enqueued, fn_vars, status_var, emitted, os_vars, ui_vars>>

\* The output written so far ends with a newline (or nothing was written yet).
AtLineStart(written) ==
    IF written = <<>> THEN TRUE
    ELSE LET last == written[Len(written)] IN last[Len(last)] = NL

\* The child writes one line to the pipe (a line without newline is its last output).
ProcWrite(w) ==
    /\ InCall(w)
    /\ proc[w].state = "running"
    /\ Len(proc[w].written) < MaxWrites(frame[w].command)
    /\ AtLineStart(proc[w].written)
    /\ \E line \in Stdout(frame[w].command) :
         proc' = [proc EXCEPT ![w].pipe = Append(@, line), ![w].written = Append(@, line)]
    /\ UNCHANGED <<log_queue, poll_pc, text_widget, enqueued, fn_vars, status_var, pc, frame, emitted, os_vars, ui_vars>>

\* The child closes its output while it keeps running.
ProcClose(w) ==
    /\ InCall(w)
    /\ proc[w].state = "running"
    /\ proc' = [proc EXCEPT ![w].state = "closed"]
    /\ UNCHANGED <<log_queue, poll_pc, text_widget, enqueued, fn_vars, status_var, pc, frame, emitted, os_vars, ui_vars>>

\* The child terminates (its exit code is seen by the wait).
ProcExit(w) ==
    /\ InCall(w)
    /\ proc[w].state \in {"running", "closed"}
    /\ proc' = [proc EXCEPT ![w].state = "exited"]
    /\ UNCHANGED <<log_queue, poll_pc, text_widget, enqueued, fn_vars, status_var, pc, frame, emitted, os_vars, ui_vars>>

\* A faulty variant of Forwarded: the line is passed on with its newline.
ForwardedRaw(line) == line

\* What line 112 passes to log() for a line read.
Forwarded(line) == rstrip(line)

\* A faulty variant of RcsReadLine: the line read is kept back instead of logged.
RcsReadLineBuffered(w) ==
    /\ pc[w] = "rcs_read"
    /\ proc[w].pipe # <<>>
    /\ proc' = [proc EXCEPT ![w].pipe = Tail(@)]
    /\ UNCHANGED <<log_queue, emitted, poll_pc, text_widget, enqueued, fn_vars, status_var, pc, frame,
                   os_vars, ui_vars>>

\* Lines 110-112: readline() returns a line; it is logged without its newline.
RcsReadLine(w) ==
    /\ pc[w] = "rcs_read"
    /\ proc[w].pipe # <<>>
    /\ Room
    /\ LogBy(w, Forwarded(Head(proc[w].pipe)))
    /\ proc' = [proc EXCEPT ![w].pipe = Tail(@)]
    /\ UNCHANGED <<poll_pc, text_widget, enqueued, fn_vars, status_var, pc, frame, os_vars, ui_vars>>

\* Line 110: readline() raises (the output cannot be decoded as text).
RcsReadError(w) ==
    /\ pc[w] = "rcs_read"
    /\ proc[w].pipe # <<>>
    /\ frame' = [frame EXCEPT ![w].exc = "UnicodeDecodeError"]
    /\ proc' = [proc EXCEPT ![w] = Abandoned]
    /\ pc' = [pc EXCEPT ![w] = "rcs_except"]
    /\ UNCHANGED <<log_queue, poll_pc, text_widget, enqueued, fn_vars, status_var, emitted, os_vars, ui_vars>>

\* Line 110: readline() returns "" at end of file: the for loop ends.
RcsEOF(w) ==
    /\ pc[w] = "rcs_read"
    /\ proc[w].pipe = <<>>
    /\ proc[w].state \in {"closed", "exited"}
    /\ pc' = [pc EXCEPT ![w] = "rcs_wait"]
    /\ UNCHANGED <<log_queue, poll_pc, text_widget, enqueued, fn_vars, status_var, frame, proc, emitted, os_vars, ui_vars>>

\* A faulty variant of ExitStatus: the return code is not looked at.
ExitStatusIgnored(retcode) == "Done"

\* The status value and the log line for a return code (lines 116-121).
ExitStatus(retcode) == IF retcode = 0 THEN "Done" ELSE "Error"
ExitLine(retcode, finish_message) ==
    IF retcode = 0 THEN Text(finish_message)
    ELSE <<"Error: command returned exit code ", ToString(retcode)>>

\* Lines 113-121: stdout.close(); wait() returns once the child has terminated, with
\* its exit code; then the status and the closing line by return code.  The call
\* returns.
RcsWait(w) ==
    /\ pc[w] = "rcs_wait"
    /\ proc[w].state = "exited"
    /\ Room
    /\ \E retcode \in ExitCodesOf(frame[w].command) :
         /\ proc' = [proc EXCEPT ![w].returncode = retcode]
         /\ status_var' = ExitStatus(retcode)
         /\ LogBy(w, ExitLine(retcode, frame[w].finish_message))
    /\ pc' = [pc EXCEPT ![w] = frame[w].ret]
    /\ UNCHANGED <<poll_pc, text_widget, enqueued, fn_vars, frame, os_vars, ui_vars>>

\* A faulty variant of ExceptLine: the error text is dropped.
ExceptLineBlank(exc) == <<"Error">>

\* Line 123: f"Error: {e}".
ExceptLine(exc) == <<"Error: ", exc>>

\* Lines 122-124: except Exception as e: log(f"Error: {e}"); status_var.set("Error").
RcsExcept(w) ==
    /\ pc[w] = "rcs_except"
    /\ Room
    /\ LogBy(w, ExceptLine(frame[w].exc))
    /\ status_var' = "Error"
    /\ pc' = [pc EXCEPT ![w] = frame[w].ret]
    /\ UNCHANGED <<poll_pc, text_widget, enqueued, fn_vars, frame, proc, os_vars, ui_vars>>

-----------------------------------------------------------------------------
(* The working directory and the artifact cleanup *)

\* A path is the tuple of names leading to it from the working directory.
Root == <<>>
FileNames == {"P.sln", ".vsconfig", "P.uproject", "Q.uproject"}
NameOrder == <<".idea", ".vs", ".vsconfig", "A", "Binaries", "DerivedDataCache",
               "Intermediate", "P.sln", "P.uproject", "Plugins", "Q.uproject", "Saved",
               "Source">>

\* The paths a tree of the model may hold.
CleanCandidates ==
    { <<"Binaries">>, <<".idea">>, <<"Source">>, <<"Source", "Binaries">>, <<"P.sln">>,
      <<"P.uproject">>, <<"Plugins">>, <<"Plugins", "Binaries">>, <<"Plugins", "A">>,
      <<"Plugins", "A", "Saved">>, <<"Plugins", "A", ".vsconfig">>,
      <<"Plugins", "A", ".idea">>, <<"Plugins", "A", ".idea", "Binaries">>,
      <<"Plugins", "A", "Saved", "Binaries">> }

Parent(path) == SubSeq(path, 1, Len(path) - 1)
IsPrefix(a, b) == Len(a) <= Len(b) /\ SubSeq(b, 1, Len(a)) = a
IsTree(t) == \A q \in t : Parent(q) = Root \/ Parent(q) \in t

\* os.path.isdir, os.path.isfile: the path exists and is of that kind.  The entries
\* below a link are those of the directory it refers to, outside the working directory.
isfile(tree, path) == path \in tree /\ path[Len(path)] \in FileNames
isdir(tree, path) == path = Root \/ (path \in tree /\ path[Len(path)] \notin FileNames)

\* shutil.rmtree(path) and os.remove(path), when they succeed.
rmtree(tree, path) == {q \in tree : ~IsPrefix(path, q)}
remove(tree, path) == tree \ {path}

\* os.listdir(directory): the names of its entries, in the order the OS gives them.
RECURSIVE Filter(_, _, _)
Filter(names, tree, directory) ==
    IF names = <<>> THEN <<>>
    ELSE IF directory \o <<Head(names)>> \in tree
         THEN <<Head(names)>> \o Filter(Tail(names), tree, directory)
         ELSE Filter(Tail(names), tree, directory)
Reverse(q) == [i \in 1..Len(q) |-> q[Len(q) + 1 - i]]
listdir(tree, directory) ==
    IF listdir_reversed THEN Reverse(Filter(NameOrder, tree, directory))
    ELSE Filter(NameOrder, tree, directory)

\* glob.glob("*.uproject"): the descriptor files of the working directory.
RECURSIVE OnlyUproject(_)
OnlyUproject(names) ==
    IF names = <<>> THEN <<>>
    ELSE IF Head(names) \in {"P.uproject", "Q.uproject"}
         THEN <<Head(names)>> \o OnlyUproject(Tail(names))
         ELSE OnlyUproject(Tail(names))
glob_uproject(tree) == OnlyUproject(listdir(tree, Root))

\* os.path.splitext(os.path.basename(file))[0] and f"{project_name}.sln".
ProjectName(file) == IF file = "P.uproject" THEN "P" ELSE "Q"
SlnName(project_name) == IF project_name = "P" THEN "P.sln" ELSE "Q.sln"

\* The cleanup threads a record through its steps: the tree, the lines logged, the
\* paths whose deletion was attempted, the directories visited, whether an error
\* was raised and not caught.
NoClean == [before |-> {}, tree |-> {}, log |-> <<>>, attempted |-> {}, visited |-> {},
            raised |-> FALSE]
CleanStart(tree) == [NoClean EXCEPT !.before = tree, !.tree = tree]
Logged(st, message) == [st EXCEPT !.log = Append(@, message)]

\* A faulty variant of TryRmtree: after a deletion has failed nothing more is deleted.
TryRmtreeAbort(st, path) ==
    IF ~isdir(st.tree, path) \/ st.attempted \cap undeletable # {} THEN st
    ELSE IF path \in undeletable
    THEN [st EXCEPT !.attempted = @ \cup {path},
                    !.log = Append(@, <<"Error removing folder ">> \o path)]
    ELSE [st EXCEPT !.attempted = @ \cup {path},
                    !.tree = rmtree(@, path),
                    !.log = Append(@, <<"Removed folder: ">> \o path)]

\* The one element of a set of one (the operators below take the state they are handed
\* as the one element s of {st}: the state is worked out once, however often it is used).
The(S) == CHOOSE r \in S : TRUE

\* Lines 147-152 (and 187-192): if os.path.isdir(path): try rmtree, log; except: log.
\* os.path.isdir follows a link; shutil.rmtree refuses to work on one and raises.
TryRmtree(st, path) ==
    The({ IF ~isdir(s.tree, path) THEN s
          ELSE IF path \in undeletable \/ path \in links
          THEN [s EXCEPT !.attempted = @ \cup {path},
                         !.log = Append(@, <<"Error removing folder ">> \o path)]
          ELSE [s EXCEPT !.attempted = @ \cup {path},
                         !.tree = rmtree(@, path),
                         !.log = Append(@, <<"Removed folder: ">> \o path)] : s \in {st} })

\* Lines 155-160 (and 203-208): if os.path.isfile(path): try remove, log; except: log.
TryRemove(st, path) ==
    The({ IF ~isfile(s.tree, path) THEN s
          ELSE IF path \in undeletable
          THEN [s EXCEPT !.attempted = @ \cup {path},
                         !.log = Append(@, <<"Error removing file ">> \o path)]
          ELSE [s EXCEPT !.attempted = @ \cup {path},
                         !.tree = remove(@, path),
                         !.log = Append(@, <<"Removed file: ">> \o path)] : s \in {st} })

\* Lines 145 and 153 (186, 202): the for loops over the folders and over the files.
RECURSIVE DeleteFolders(_, _, _)
DeleteFolders(st, directory, folders) ==
    IF folders = <<>> THEN st
    ELSE DeleteFolders(TryRmtree(st, directory \o <<Head(folders)>>), directory, Tail(folders))
RECURSIVE DeleteFiles(_, _, _)
DeleteFiles(st, directory, files) ==
    IF files = <<>> THEN st
    ELSE DeleteFiles(TryRemove(st, directory \o <<Head(files)>>), directory, Tail(files))

\* Lines 144-164: delete the listed folders and files of the directory, then list it
\* (an error here is not caught) and recurse into every entry that is a directory.
RECURSIVE remove_items_recursively(_, _, _, _)
RECURSIVE Descend(_, _, _, _, _)
remove_items_recursively(st, directory, folders_to_delete, files_to_delete) ==
    LET st1 == [st EXCEPT !.visited = @ \cup {directory}]
        st2 == DeleteFolders(st1, directory, folders_to_delete)
    IN The({ IF directory \in unlistable THEN [st3 EXCEPT !.raised = TRUE]
             ELSE Descend(st3, directory, listdir(st3.tree, directory),
                          folders_to_delete, files_to_delete) :
             st3 \in {DeleteFiles(st2, directory, files_to_delete)} })
Descend(st, directory, entries, folders_to_delete, files_to_delete) ==
    The({ IF entries = <<>> \/ s.raised THEN s
          ELSE LET entry_path == directory \o <<Head(entries)>>
                   st1 == IF isdir(s.tree, entry_path)
                          THEN remove_items_recursively(s, entry_path, folders_to_delete,
                                                        files_to_delete)
                          ELSE s
               IN Descend(st1, directory, Tail(entries), folders_to_delete,
                          files_to_delete) : s \in {st} })

\* Lines 172-173 and 178-185: the two lists of folder names.
PluginFolders == <<".vs", "Binaries", "DerivedDataCache", "Intermediate", "Saved">>
RootFolders == <<".vs", ".idea", "Binaries", "DerivedDataCache", "Intermediate", "Saved">>

\* Lines 166-174.
clean_plugins_folder(st, project_name) ==
    The({ IF ~isdir(s.tree, <<"Plugins">>)
          THEN Logged(s, <<"Plugins folder not found in ">>)
          ELSE remove_items_recursively(Logged(s, <<"Cleaning plugin folders and files...">>),
                                        <<"Plugins">>, PluginFolders,
                                        <<SlnName(project_name), ".vsconfig">>) :
          s \in {st} })

\* Lines 176-210.
clean_files_and_folders(tree, project_name) ==
    LET st1 == Logged([CleanStart(tree) EXCEPT !.visited = {Root}],
                      <<"Cleaning project root folders...">>)
        Files(st2) ==
            The({ IF uproject_list # <<>>
                  THEN DeleteFiles(st2, Root,
                                   <<SlnName(ProjectName(uproject_list[1])), ".vsconfig">>)
                  ELSE st2 : uproject_list \in {glob_uproject(st2.tree)} })
    IN The({ IF st4.raised THEN st4 ELSE Logged(st4, <<"Cleanup completed successfully!">>) :
             st4 \in { clean_plugins_folder(Files(st2), project_name) :
                       st2 \in { Logged(DeleteFolders(st1, Root, RootFolders),
                                        <<"Cleaning project root files...">>) } } })

-----------------------------------------------------------------------------
(* The state after MobileStyleApp.__init__: nothing logged, the poll armed, both
   buttons enabled, no worker running *)

Boot ==
    /\ log_queue = <<>>
    /\ poll_pc = "armed"
    /\ text_widget = <<>>
    /\ enqueued = <<>>
    /\ status_var = "Ready"
    /\ pc = [t \in Threads |-> "idle"]
    /\ frame = [t \in Threads |-> NoFrame]
    /\ proc = [t \in Threads |-> NoProc]
    /\ emitted = [t \in Threads |-> <<>>]
    /\ last_clean = NoClean
    /\ compile_btn = "normal"
    /\ package_btn = "normal"

\* No function is called on its own.
NoOutput == [done |-> FALSE]
NoCall == input = <<>> /\ output = NoOutput

-----------------------------------------------------------------------------
(* The preamble shared by run_build_process and run_UAT_build_process *)

\* What the environment may answer when a pipeline reads it.
NoValue == "<None>"
Descriptors == {"5.3", "", NoValue, "<invalid JSON>"}
Overrides == {NoValue, "", "D:\\UE"}
RegistryOutcomes == {"no key", "no value", "directory exists", "directory missing",
                     "access denied"}
InstalledDirectory == "E:\\UE_5.3"

\* A faulty variant of Truthy: only None is false.
NotNone(v) == v # NoValue

\* Python's truth value of a string or None.
Truthy(v) == v \notin {NoValue, ""}

\* log() of several messages in a row by worker w.
LogAll(w, messages) ==
    /\ log_queue' = log_queue \o messages
    /\ emitted' = [emitted EXCEPT ![w] = @ \o messages]

\* The same where the lines open a new step of worker w.
LogNew(w, messages) ==
    /\ log_queue' = log_queue \o messages
    /\ emitted' = [emitted EXCEPT ![w] = messages]

\* The worker w notes the step it takes (history).
Step(w, name) == [frame EXCEPT ![w].trail = Append(@, name)]

\* Lines 222-230 (316-324): glob the descriptor; none ends the run.
Locate(w) ==
    /\ pc[w] = "locate"
    /\ Room
    /\ LET uproject_files == glob_uproject(fs)
       IN IF uproject_files = <<>>
          THEN /\ LogAll(w, << <<"No .uproject file found in the current directory.">> >>)
               /\ frame' = Step(w, "NoDescriptor")
               /\ pc' = [pc EXCEPT ![w] = "return"]
          ELSE /\ LogAll(w,
                    (IF Len(uproject_files) > 1
                     THEN << <<"More than one .uproject file found. Selecting the first one.">> >>
                     ELSE <<>>)
                    \o << <<".uproject file found: ", uproject_files[1]>> >>)
               /\ frame' = [Step(w, "LocatingProject") EXCEPT
                              ![w].uproject_path = uproject_files[1]]
               /\ pc' = [pc EXCEPT ![w] = "read"]
    /\ UNCHANGED <<poll_pc, text_widget, enqueued, fn_vars, status_var, proc, os_vars, ui_vars>>

\* Line 242 / 336: the target line of each pipeline.
TargetLine(w, project_name) ==
    IF w = "compile" THEN <<"Target to compile: ", project_name \o "Editor">>
    ELSE <<"Target to be built: ", project_name>>

\* Lines 232-242 (326-336): load the descriptor; a missing or empty EngineAssociation
\* ends the run; a file that is not JSON raises.
ReadDescriptor(w) ==
    /\ pc[w] = "read"
    /\ Room
    /\ \E content \in Descriptors :
         IF content = "<invalid JSON>"
         THEN /\ frame' = [Step(w, "ReadingDescriptor") EXCEPT ![w].exc = "JSONDecodeError"]
              /\ pc' = [pc EXCEPT ![w] = "except"]
              /\ UNCHANGED <<log_queue, emitted>>
         ELSE IF ~Truthy(content)
         THEN /\ LogAll(w, << <<"'EngineAssociation' key not found in the .uproject file.">> >>)
              /\ frame' = Step(w, "NoEngineVersion")
              /\ pc' = [pc EXCEPT ![w] = "return"]
         ELSE /\ LogAll(w, << <<"Unreal Engine version set in project: ", content>>,
                              TargetLine(w, ProjectName(frame[w].uproject_path)) >>)
              /\ frame' = [Step(w, "ReadingDescriptor") EXCEPT
                             ![w].engine_version = content,
                             ![w].project_name = ProjectName(frame[w].uproject_path)]
              /\ pc' = [pc EXCEPT ![w] = "resolve"]
    /\ UNCHANGED <<poll_pc, text_widget, enqueued, fn_vars, status_var, proc, os_vars, ui_vars>>

\* Lines 129-142: the registry lookup, by what the registry holds.
find_unreal_engine_path_from_registry(version, registry) ==
    CASE registry = "directory exists" ->
           [path |-> InstalledDirectory, log |-> <<>>, raised |-> ""]
      [] registry = "directory missing" ->
           [path |-> NoValue,
            log |-> << <<"Unreal Engine ", version, " found, but directory '",
                         InstalledDirectory, "' does not exist.">> >>,
            raised |-> ""]
      [] registry \in {"no key", "no value"} ->
           [path |-> NoValue,
            log |-> << <<"Unreal Engine ", version, " not found in Windows registry.">> >>,
            raised |-> ""]
      [] OTHER ->
           [path |-> NoValue, log |-> <<>>, raised |-> "PermissionError"]

\* Line 248 (342): the default installation path of a version.
DefaultPath(version) == "C:\\Program Files\\Epic Games\\UE_" \o version

\* Lines 244-253 (338-347): the override, else the registry, else the default path.
Resolve(version, override, registry) ==
    IF Truthy(override)
    THEN [path |-> override, source |-> "environment", lookup |-> FALSE, raised |-> "",
          log |-> << <<"Path defined by environment variable: ", override>> >>]
    ELSE LET found == find_unreal_engine_path_from_registry(version, registry)
         IN IF found.raised # ""
            THEN [path |-> NoValue, source |-> "", lookup |-> TRUE, raised |-> found.raised,
                  log |-> found.log]
            ELSE IF ~Truthy(found.path)
            THEN [path |-> DefaultPath(version), source |-> "default", lookup |-> TRUE,
                  raised |-> "",
                  log |-> found.log \o << <<"Using default path: ", DefaultPath(version)>> >>]
            ELSE [path |-> found.path, source |-> "registry", lookup |-> TRUE,
                  raised |-> "",
                  log |-> found.log \o << <<"Path obtained from registry: ", found.path>> >>]

\* The engine resolution step of a pipeline.
ResolveEngine(w) ==
    /\ pc[w] = "resolve"
    /\ Room
    /\ \E override \in Overrides, registry \in RegistryOutcomes :
         LET r == Resolve(frame[w].engine_version, override, registry)
             noted == IF r.lookup THEN "ResolvingEngine: registry lookup"
                      ELSE "ResolvingEngine"
         IN /\ LogAll(w, r.log)
            /\ IF r.raised # ""
               THEN /\ frame' = [Step(w, noted) EXCEPT ![w].exc = r.raised]
                    /\ pc' = [pc EXCEPT ![w] = "except"]
               ELSE /\ frame' = [Step(w, noted) EXCEPT ![w].unreal_engine_path = r.path]
                    /\ pc' = [pc EXCEPT ![w] = IF w = "compile" THEN "check_dll"
                                               ELSE "check_uat"]
    /\ UNCHANGED <<poll_pc, text_widget, enqueued, fn_vars, status_var, proc, os_vars, ui_vars>>

\* The frame of a run_command_stream call made by a pipeline, the steps that lead to
\* it noted.
Call(w, command, start_message, finish_message, ret, steps) ==
    [frame EXCEPT ![w].trail = @ \o steps,
                  ![w].command = command, ![w].start_message = start_message,
                  ![w].finish_message = finish_message, ![w].ret = ret]

-----------------------------------------------------------------------------
(* run_build_process and the Compile button *)

BuildToolDll(root) == root \o "\\Engine\\Binaries\\DotNET\\UnrealBuildTool\\UnrealBuildTool.dll"
BuildBat(root) == root \o "\\Engine\\Build\\BatchFiles\\Build.bat"
RunUAT(root) == root \o "\\Engine\\Build\\BatchFiles\\RunUAT.bat"

\* A faulty variant of start_compile_thread: the button is left enabled.
start_compile_thread_enabled ==
    /\ compile_btn = "normal"
    /\ status_var' = "Compiling Editor..."
    /\ pc' = [pc EXCEPT !["compile"] = "locate"]
    /\ frame' = [frame EXCEPT !["compile"] = NoFrame]
    /\ emitted' = [emitted EXCEPT !["compile"] = <<>>]
    /\ proc' = [proc EXCEPT !["compile"] = NoProc]
    /\ UNCHANGED <<log_queue, poll_pc, text_widget, enqueued, fn_vars, os_vars, ui_vars>>

\* Lines 474-477: the button handler, on the UI thread.
start_compile_thread ==
    /\ compile_btn = "normal"
    /\ compile_btn' = "disabled"
    /\ status_var' = "Compiling Editor..."
    /\ pc' = [pc EXCEPT !["compile"] = "locate"]
    /\ frame' = [frame EXCEPT !["compile"] = NoFrame]
    /\ emitted' = [emitted EXCEPT !["compile"] = <<>>]
    /\ proc' = [proc EXCEPT !["compile"] = NoProc]
    /\ UNCHANGED <<log_queue, poll_pc, text_widget, enqueued, fn_vars, os_vars, package_btn>>

\* A faulty variant of CheckBuildTool: the absence is logged and the run goes on.
CheckBuildToolLenient ==
    /\ pc["compile"] = "check_dll"
    /\ Room
    /\ \E exists \in BOOLEAN :
         IF ~exists
         THEN /\ LogAll("compile", << <<"File '",
                       frame["compile"].unreal_engine_path, "' not found.">> >>)
              /\ frame' = Step("compile", "ToolNotFound UnrealBuildTool.dll")
              /\ pc' = [pc EXCEPT !["compile"] = "clean"]
         ELSE /\ frame' = Step("compile", "ToolFound UnrealBuildTool.dll")
              /\ pc' = [pc EXCEPT !["compile"] = "clean"]
              /\ UNCHANGED <<log_queue, emitted>>
    /\ UNCHANGED <<poll_pc, text_widget, enqueued, fn_vars, status_var, proc, os_vars, ui_vars>>

\* Lines 255-265: the build tool must exist under the engine root.
CheckBuildTool ==
    /\ pc["compile"] = "check_dll"
    /\ Room
    /\ \E exists \in BOOLEAN :
         IF ~exists
         THEN /\ LogAll("compile", << <<"File '",
                       BuildToolDll(frame["compile"].unreal_engine_path), "' not found.">> >>)
              /\ frame' = Step("compile", "ToolNotFound UnrealBuildTool.dll")
              /\ pc' = [pc EXCEPT !["compile"] = "return"]
         ELSE /\ frame' = Step("compile", "ToolFound UnrealBuildTool.dll")
              /\ pc' = [pc EXCEPT !["compile"] = "clean"]
              /\ UNCHANGED <<log_queue, emitted>>
    /\ UNCHANGED <<poll_pc, text_widget, enqueued, fn_vars, status_var, proc, os_vars, ui_vars>>

\* Lines 274-275: the cleanup; an error it raises reaches the pipeline's except clause.
Clean ==
    /\ pc["compile"] = "clean"
    /\ Room
    /\ LET st == clean_files_and_folders(fs, frame["compile"].project_name)
       IN /\ fs' = st.tree
          /\ last_clean' = st
          /\ LogAll("compile",
                    << <<"\n=== Cleaning project files for rebuild ===">> >> \o st.log)
          /\ IF st.raised
             THEN /\ frame' = [Step("compile", "Cleaning") EXCEPT
                                 !["compile"].exc = "PermissionError: listdir"]
                  /\ pc' = [pc EXCEPT !["compile"] = "except"]
             ELSE /\ frame' = Step("compile", "Cleaning")
                  /\ pc' = [pc EXCEPT !["compile"] = "check_script"]
    /\ UNCHANGED <<poll_pc, text_widget, enqueued, fn_vars, status_var, proc,
                   undeletable, unlistable, listdir_reversed, links, ui_vars>>

\* Lines 277-284: Build.bat must exist; then run_command_stream is called with it.
CheckBuildScript ==
    /\ pc["compile"] = "check_script"
    /\ Room
    /\ \E exists \in BOOLEAN :
         IF ~exists
         THEN /\ LogAll("compile", << <<"Build.bat file not found at: ",
                       BuildBat(frame["compile"].unreal_engine_path)>> >>)
              /\ frame' = Step("compile", "ToolNotFound Build.bat")
              /\ pc' = [pc EXCEPT !["compile"] = "return"]
         ELSE /\ LogAll("compile", << <<"\n=== Recreating SLN file (calling Build.bat) ===">>,
                                     <<"Executing: ", "Build.bat">> >>)
              /\ frame' = Call("compile", "Build.bat", "Recreating SLN",
                               "SLN file recreated successfully", "regenerated",
                               <<"ToolFound Build.bat", "RegeneratingProjectFiles">>)
              /\ pc' = [pc EXCEPT !["compile"] = "rcs_start"]
    /\ UNCHANGED <<poll_pc, text_widget, enqueued, fn_vars, status_var, proc, os_vars, ui_vars>>

\* A faulty variant of Compile: a failed regeneration ends the run.
CompileUnlessFailed ==
    /\ pc["compile"] = "regenerated"
    /\ Room
    /\ IF frame["compile"].exc # "" \/ proc["compile"].returncode # 0
       THEN /\ frame' = Step("compile", "Abandoned")
            /\ pc' = [pc EXCEPT !["compile"] = "return"]
            /\ UNCHANGED <<log_queue, emitted>>
       ELSE /\ LogNew("compile", << <<"\n=== Compiling the project ===">> >>)
            /\ frame' = Call("compile", "dotnet UnrealBuildTool.dll", "Compiling project",
                             "Project compiled successfully", "compiled", <<"Compiling">>)
            /\ pc' = [pc EXCEPT !["compile"] = "rcs_start"]
    /\ UNCHANGED <<poll_pc, text_widget, enqueued, fn_vars, status_var, proc, os_vars, ui_vars>>

\* Lines 286-288: after the first call returns, the compile command is run.
Compile ==
    /\ pc["compile"] = "regenerated"
    /\ Room
    /\ LogNew("compile", << <<"\n=== Compiling the project ===">>,
                            <<"Executing: ", "dotnet UnrealBuildTool.dll">> >>)
    /\ frame' = Call("compile", "dotnet UnrealBuildTool.dll", "Compiling project",
                     "Project compiled successfully", "compiled", <<"Compiling">>)
    /\ pc' = [pc EXCEPT !["compile"] = "rcs_start"]
    /\ UNCHANGED <<poll_pc, text_widget, enqueued, fn_vars, status_var, proc, os_vars, ui_vars>>

\* Lines 291-303: the lines logged by the optional post-steps, and whether
\* os.startfile is reached, by the two options and what exists.
OpenLines(open_sln, sln_exists, open_uproject, uproject_exists, startfile_fails) ==
    (IF ~open_sln THEN <<>>
     ELSE IF sln_exists THEN << <<"Opening SLN file...">> >>
     ELSE << <<"SLN file not found to open.">> >>)
    \o
    (IF ~open_uproject \/ (open_sln /\ sln_exists /\ startfile_fails) THEN <<>>
     ELSE IF uproject_exists THEN << <<"Opening .uproject file...">> >>
     ELSE << <<".uproject file not found to open.">> >>)

\* A faulty variant of Finish: after a failed compilation the closing line is left out.
FinishUnlessFailed ==
    /\ pc["compile"] = "compiled"
    /\ Room
    /\ LogNew("compile", IF status_var = "Done"
                         THEN << <<"\nProject files compiled successfully.">> >>
                         ELSE << <<"\nCompilation failed.">> >>)
    /\ frame' = [Step("compile", "Finishing") EXCEPT !["compile"].exc = ""]
    /\ pc' = [pc EXCEPT !["compile"] = "return"]
    /\ proc' = [proc EXCEPT !["compile"] = NoProc]
    /\ UNCHANGED <<poll_pc, text_widget, enqueued, fn_vars, status_var, os_vars, ui_vars>>

\* Lines 289-303: the closing line and the optional post-steps.
Finish ==
    /\ pc["compile"] = "compiled"
    /\ Room
    /\ \E open_sln \in BOOLEAN, open_uproject \in BOOLEAN, sln_exists \in BOOLEAN,
          startfile_fails \in BOOLEAN :
         LET uproject_exists == isfile(fs, <<frame["compile"].uproject_path>>)
             started == (open_sln /\ sln_exists) \/ (open_uproject /\ uproject_exists)
         IN /\ LogNew("compile", << <<"\nProject files compiled successfully.">> >>
                      \o OpenLines(open_sln, sln_exists, open_uproject, uproject_exists,
                                   startfile_fails))
            /\ IF started /\ startfile_fails
               THEN /\ frame' = [Step("compile", "Finishing") EXCEPT
                                   !["compile"].exc = "OSError: startfile"]
                    /\ pc' = [pc EXCEPT !["compile"] = "except"]
               ELSE /\ frame' = [Step("compile", "Finishing") EXCEPT !["compile"].exc = ""]
                    /\ pc' = [pc EXCEPT !["compile"] = "return"]
    /\ proc' = [proc EXCEPT !["compile"] = NoProc]
    /\ UNCHANGED <<poll_pc, text_widget, enqueued, fn_vars, status_var, os_vars, ui_vars>>

\* Lines 304-305: except Exception as e: log(f"Error: {e}").
BuildExcept ==
    /\ pc["compile"] = "except"
    /\ Room
    /\ LogAll("compile", << <<"Error: ", frame["compile"].exc>> >>)
    /\ frame' = Step("compile", "Except")
    /\ pc' = [pc EXCEPT !["compile"] = "return"]
    /\ UNCHANGED <<poll_pc, text_widget, enqueued, fn_vars, status_var, proc, os_vars, ui_vars>>

\* A faulty variant of run_compile: the thread ends without enabling the button.
run_compile_silent ==
    /\ pc["compile"] = "return"
    /\ pc' = [pc EXCEPT !["compile"] = "idle"]
    /\ frame' = [frame EXCEPT !["compile"] = NoFrame]
    /\ emitted' = [emitted EXCEPT !["compile"] = <<>>]
    /\ proc' = [proc EXCEPT !["compile"] = NoProc]
    /\ UNCHANGED <<log_queue, poll_pc, text_widget, enqueued, fn_vars, status_var, os_vars,
                   ui_vars>>

\* Lines 479-481: run_build_process has returned; the button is enabled again and
\* the thread ends (its locals and its history are gone).
run_compile ==
    /\ pc["compile"] = "return"
    /\ compile_btn' = "normal"
    /\ pc' = [pc EXCEPT !["compile"] = "idle"]
    /\ frame' = [frame EXCEPT !["compile"] = NoFrame]
    /\ emitted' = [emitted EXCEPT !["compile"] = <<>>]
    /\ proc' = [proc EXCEPT !["compile"] = NoProc]
    /\ UNCHANGED <<log_queue, poll_pc, text_widget, enqueued, fn_vars, status_var, os_vars,
                   package_btn>>

-----------------------------------------------------------------------------
(* run_UAT_build_process and the Build (UAT) button *)

\* Lines 483-488: the button handler, on the UI thread.
start_package_thread ==
    /\ package_btn = "normal"
    /\ package_btn' = "disabled"
    /\ status_var' = "Starting Build UAT..."
    /\ pc' = [pc EXCEPT !["package"] = "locate"]
    /\ frame' = [frame EXCEPT !["package"] = NoFrame]
    /\ emitted' = [emitted EXCEPT !["package"] = <<>>]
    /\ proc' = [proc EXCEPT !["package"] = NoProc]
    /\ UNCHANGED <<log_queue, poll_pc, text_widget, enqueued, fn_vars, os_vars, compile_btn>>

\* A faulty variant of CheckRunUAT: the command is run without looking for the script.
CheckRunUATUnchecked ==
    /\ pc["package"] = "check_uat"
    /\ Room
    /\ LogAll("package", << <<"Executing UAT command:">>, <<"RunUAT.bat">> >>)
    /\ frame' = Call("package", "RunUAT.bat", "Starting Build UAT...",
                     "UAT Build completed successfully!", "return", <<"Packaging">>)
    /\ pc' = [pc EXCEPT !["package"] = "rcs_start"]
    /\ UNCHANGED <<poll_pc, text_widget, enqueued, fn_vars, status_var, proc, os_vars, ui_vars>>

\* Lines 349-389: RunUAT.bat must exist; then run_command_stream is called with it.
CheckRunUAT ==
    /\ pc["package"] = "check_uat"
    /\ Room
    /\ \E exists \in BOOLEAN :
         IF ~exists
         THEN /\ LogAll("package", << <<"RunUAT.bat file not found at: ",
                       RunUAT(frame["package"].unreal_engine_path)>> >>)
              /\ frame' = Step("package", "ToolNotFound RunUAT.bat")
              /\ pc' = [pc EXCEPT !["package"] = "return"]
         ELSE /\ LogAll("package", << <<"Executing UAT command:">>, <<"RunUAT.bat">> >>)
              /\ frame' = Call("package", "RunUAT.bat", "Starting Build UAT...",
                               "UAT Build completed successfully!", "return",
                               <<"ToolFound RunUAT.bat", "Packaging">>)
              /\ pc' = [pc EXCEPT !["package"] = "rcs_start"]
    /\ UNCHANGED <<poll_pc, text_widget, enqueued, fn_vars, status_var, proc, os_vars, ui_vars>>

\* Lines 390-392: except Exception as e: log(...); status_var.set("Error in Build UAT").
UatExcept ==
    /\ pc["package"] = "except"
    /\ Room
    /\ LogAll("package", << <<"Error in Build UAT: ", frame["package"].exc>> >>)
    /\ status_var' = "Error in Build UAT"
    /\ frame' = Step("package", "Except")
    /\ pc' = [pc EXCEPT !["package"] = "return"]
    /\ UNCHANGED <<poll_pc, text_widget, enqueued, fn_vars, proc, os_vars, ui_vars>>

\* Lines 490-492: run_UAT_build_process has returned; the button is enabled again and
\* the thread ends (its locals and its history are gone).
run_package ==
    /\ pc["package"] = "return"
    /\ package_btn' = "normal"
    /\ pc' = [pc EXCEPT !["package"] = "idle"]
    /\ frame' = [frame EXCEPT !["package"] = NoFrame]
    /\ emitted' = [emitted EXCEPT !["package"] = <<>>]
    /\ proc' = [proc EXCEPT !["package"] = NoProc]
    /\ UNCHANGED <<log_queue, poll_pc, text_widget, enqueued, fn_vars, status_var, os_vars,
                   compile_btn>>

-----------------------------------------------------------------------------
(* Specification of the application: both buttons, both workers, the consumer *)

\* The working directories the pipelines are run in: without a descriptor; a project
\* with artifacts; a project with two descriptors and a plugin directory that
\* cannot be listed.
Worlds ==
    { [tree |-> {}, unlistable |-> {}],
      [tree |-> {<<"P.uproject">>, <<"Binaries">>, <<"Plugins">>, <<"Plugins", "A">>,
                 <<"Plugins", "A", "Saved">>},
       unlistable |-> {}],
      [tree |-> {<<"P.uproject">>, <<"Q.uproject">>, <<"P.sln">>, <<"Plugins">>,
                 <<"Plugins", "A">>},
       unlistable |-> {<<"Plugins", "A">>}] }

Init ==
    /\ Boot
    /\ \E world \in Worlds : fs = world.tree /\ unlistable = world.unlistable
    /\ undeletable = {}
    /\ listdir_reversed = FALSE
    /\ links = {}
    /\ NoCall

Next ==
    \/ start_compile_thread
    \/ start_package_thread
    \/ \E w \in Pipelines : Locate(w)
    \/ \E w \in Pipelines : ReadDescriptor(w)
    \/ \E w \in Pipelines : ResolveEngine(w)
    \/ CheckBuildTool
    \/ Clean
    \/ CheckBuildScript
    \/ Compile
    \/ Finish
    \/ BuildExcept
    \/ run_compile
    \/ CheckRunUAT
    \/ UatExcept
    \/ run_package
    \/ \E w \in Pipelines : RcsStart(w)
    \/ \E w \in Pipelines : RcsPopen(w)
    \/ \E w \in Pipelines : ProcWrite(w)
    \/ \E w \in Pipelines : ProcClose(w)
    \/ \E w \in Pipelines : ProcExit(w)
    \/ \E w \in Pipelines : RcsReadLine(w)
    \/ \E w \in Pipelines : RcsReadError(w)
    \/ \E w \in Pipelines : RcsEOF(w)
    \/ \E w \in Pipelines : RcsWait(w)
    \/ \E w \in Pipelines : RcsExcept(w)
    \/ PollFire
    \/ PollTake
    \/ PollEmpty

Spec == Init /\ [][Next]_vars

-----------------------------------------------------------------------------
(* The application under fair scheduling, one pipeline at a time: a worker thread that
   can go on does go on, a spawned process terminates, and the Tk timer keeps firing
   the poll.  The buttons are pressed or not.  The two runs never wait for each other
   in the code (the only wait between them, for room in the queue, is the model's), so
   the second button is pressed here only while the other worker is idle. *)

\* The steps of the two worker threads.
CompileWorker ==
    \/ Locate("compile")
    \/ ReadDescriptor("compile")
    \/ ResolveEngine("compile")
    \/ CheckBuildTool
    \/ Clean
    \/ CheckBuildScript
    \/ Compile
    \/ Finish
    \/ BuildExcept
    \/ run_compile
    \/ RcsStart("compile")
    \/ RcsPopen("compile")
    \/ RcsReadLine("compile")
    \/ RcsReadError("compile")
    \/ RcsEOF("compile")
    \/ RcsWait("compile")
    \/ RcsExcept("compile")

PackageWorker ==
    \/ Locate("package")
    \/ ReadDescriptor("package")
    \/ ResolveEngine("package")
    \/ CheckRunUAT
    \/ UatExcept
    \/ run_package
    \/ RcsStart("package")
    \/ RcsPopen("package")
    \/ RcsReadLine("package")
    \/ RcsReadError("package")
    \/ RcsEOF("package")
    \/ RcsWait("package")
    \/ RcsExcept("package")

\* poll_log_queue_colored, from the timer firing to the re-arming.
Poll == PollFire \/ PollTake \/ PollEmpty

\* The Compile button is pressed while no package worker runs, and the other way round.
PressCompile == pc["package"] = "idle" /\ start_compile_thread
PressPackage == pc["compile"] = "idle" /\ start_package_thread

NextLive ==
    \/ PressCompile
    \/ PressPackage
    \/ CompileWorker
    \/ PackageWorker
    \/ \E w \in Pipelines : ProcWrite(w)
    \/ \E w \in Pipelines : ProcClose(w)
    \/ \E w \in Pipelines : ProcExit(w)
    \/ Poll

Fairness ==
    /\ WF_vars(CompileWorker)
    /\ WF_vars(PackageWorker)
    /\ WF_vars(ProcExit("compile"))
    /\ WF_vars(ProcExit("package"))
    /\ WF_vars(Poll)

SpecLive == Init /\ [][NextLive]_vars /\ Fairness

-----------------------------------------------------------------------------
(* Specification of the channel alone: producers and the consumer *)

\* The channel and the stream specifications touch no file.
InitChannel ==
    /\ Boot
    /\ fs = {}
    /\ undeletable = {}
    /\ unlistable = {}
    /\ listdir_reversed = FALSE
    /\ links = {}
    /\ NoCall

NextChannel ==
    \/ \E t \in Producers : ProducerLog(t)
    \/ PollFire
    \/ PollGet
    \/ PollEmpty

SpecChannel == InitChannel /\ [][NextChannel]_vars

\* The channel with the Tk timer firing: a poll that can go on does go on.  The
\* producers log when they like.
PollRender == PollFire \/ PollGet \/ PollEmpty

SpecChannelLive == InitChannel /\ [][NextChannel]_vars /\ WF_vars(PollRender)

-----------------------------------------------------------------------------
(* Specification of one run_command_stream call, with the consumer polling *)

\* A test thread calls run_command_stream("cmd", status_var, "start", "finish").
CallStream ==
    /\ pc["stream"] = "idle"
    /\ frame' = [frame EXCEPT !["stream"] =
                   [NoFrame EXCEPT !.command = "cmd", !.start_message = "start",
                                   !.finish_message = "finish", !.ret = "returned"]]
    /\ pc' = [pc EXCEPT !["stream"] = "rcs_start"]
    /\ UNCHANGED <<log_queue, poll_pc, text_widget, enqueued, fn_vars, status_var, proc, emitted, os_vars, ui_vars>>

NextStream ==
    \/ CallStream
    \/ RcsStart("stream")
    \/ RcsPopen("stream")
    \/ ProcWrite("stream")
    \/ ProcClose("stream")
    \/ ProcExit("stream")
    \/ RcsReadLine("stream")
    \/ RcsReadError("stream")
    \/ RcsEOF("stream")
    \/ RcsWait("stream")
    \/ RcsExcept("stream")
    \/ PollFire
    \/ PollGet
    \/ PollEmpty

SpecStream == InitChannel /\ [][NextStream]_vars

-----------------------------------------------------------------------------
(* Specification of the cleanup alone: every tree, with deletions and listings failing *)

InitClean ==
    /\ Boot
    /\ fs \in {t \in SUBSET CleanCandidates : IsTree(t)}
    /\ undeletable \in SUBSET ({<<"Binaries">>, <<"Plugins", "A", "Saved">>,
                                <<"Plugins", "A", ".vsconfig">>} \cap fs)
    /\ unlistable \in SUBSET ({<<"Plugins", "A">>, <<"Plugins", "A", ".idea">>} \cap fs)
    /\ listdir_reversed \in BOOLEAN
    /\ links \in SUBSET ({<<"Plugins", "A">>} \cap fs)
    /\ NoCall

\* A test thread calls clean_files_and_folders(os.getcwd(), "P").
CallClean ==
    /\ pc["cleaner"] = "idle"
    /\ LET st == clean_files_and_folders(fs, "P")
       IN /\ fs' = st.tree
          /\ last_clean' = st
          /\ log_queue' = log_queue \o st.log
          /\ emitted' = [emitted EXCEPT !["cleaner"] = st.log]
          /\ pc' = [pc EXCEPT !["cleaner"] = IF st.raised THEN "raised" ELSE "returned"]
    /\ UNCHANGED <<poll_pc, text_widget, enqueued, fn_vars, status_var, frame, proc,
                   undeletable, unlistable, listdir_reversed, links, ui_vars>>

NextClean == CallClean

SpecClean == InitClean /\ [][NextClean]_vars

-----------------------------------------------------------------------------
(* Specification of the engine resolution alone: every version, override and registry *)

\* The versions a descriptor may name, and what UNREAL_ENGINE_PATH may hold.
Versions == {"5.3", "4.27", "5.4"}
OverrideValues == Overrides \cup {"E:\\UE_5.3", "UE"}

InitResolve ==
    /\ Boot
    /\ fs = {}
    /\ undeletable = {}
    /\ unlistable = {}
    /\ listdir_reversed = FALSE
    /\ links = {}
    /\ input \in [version : Versions, override : OverrideValues, registry : RegistryOutcomes]
    /\ output = NoOutput

\* Lines 244-253 run with the version read, the environment and the registry as given.
CallResolve ==
    /\ ~output.done
    /\ output' = [done |-> TRUE,
                  value |-> Resolve(input.version, input.override, input.registry)]
    /\ UNCHANGED <<log_queue, poll_pc, text_widget, enqueued, status_var, pc, frame, proc,
                   emitted, os_vars, ui_vars, input>>

NextResolve == CallResolve

SpecResolve == InitResolve /\ [][NextResolve]_vars

-----------------------------------------------------------------------------
(* parse_ansi: a text is a tuple of characters, "ESC" standing for \x1b *)

ESC == "ESC"

\* The eight base colors and their tags.
ANSI_COLORS ==
    [c \in {<<"3", d>> : d \in {"0", "1", "2", "3", "4", "5", "6", "7"}} |->
        CASE c[2] = "0" -> "ansi_black"
          [] c[2] = "1" -> "ansi_red"
          [] c[2] = "2" -> "ansi_green"
          [] c[2] = "3" -> "ansi_yellow"
          [] c[2] = "4" -> "ansi_blue"
          [] c[2] = "5" -> "ansi_magenta"
          [] c[2] = "6" -> "ansi_cyan"
          [] c[2] = "7" -> "ansi_white"]

\* The class [0-9;] of the pattern.
CodeChars == {"0", "1", "2", "3", "4", "5", "6", "7", "8", "9", ";"}

\* [0-9;]* from position j: the first position that is past the text or holds another
\* character (the repetition is greedy, and giving characters back never helps, since
\* a character of the class is no "m").
RECURSIVE RunEnd(_, _)
RunEnd(text, j) ==
    IF j <= Len(text) /\ text[j] \in CodeChars THEN RunEnd(text, j + 1) ELSE j

\* A faulty variant of MatchEnd: the pattern asks for at least one character between
\* "[" and "m".
MatchEndNonEmpty(text, i) ==
    IF i + 1 <= Len(text) /\ text[i] = ESC /\ text[i + 1] = "["
    THEN LET k == RunEnd(text, i + 2)
         IN IF k > i + 2 /\ k <= Len(text) /\ text[k] = "m" THEN k ELSE 0
    ELSE 0

\* The pattern \x1b\[[0-9;]*m at position i: the position of the closing "m", 0 for no
\* match.
MatchEnd(text, i) ==
    IF i + 1 <= Len(text) /\ text[i] = ESC /\ text[i + 1] = "["
    THEN LET k == RunEnd(text, i + 2)
         IN IF k <= Len(text) /\ text[k] = "m" THEN k ELSE 0
    ELSE 0

\* finditer: the first match that starts at pos or later, 0 for none.
RECURSIVE FindMatch(_, _)
FindMatch(text, pos) ==
    IF pos > Len(text) THEN 0
    ELSE IF MatchEnd(text, pos) > 0 THEN pos
    ELSE FindMatch(text, pos + 1)

\* code.split(';')
RECURSIVE split(_)
split(code) ==
    IF \E i \in 1..Len(code) : code[i] = ";"
    THEN LET i == CHOOSE i \in 1..Len(code) :
                      code[i] = ";" /\ \A j \in 1..(i - 1) : code[j] # ";"
         IN <<SubSeq(code, 1, i - 1)>> \o split(SubSeq(code, i + 1, Len(code)))
    ELSE <<code>>

\* A faulty variant of NextColor: a code that is no color resets.
NextColorResetting(c, current_color) ==
    IF c = <<"0">> THEN NoValue
    ELSE IF c \in DOMAIN ANSI_COLORS THEN ANSI_COLORS[c]
    ELSE NoValue

\* The body of the loop over the codes: '0' clears, a key of ANSI_COLORS sets, anything
\* else is passed over.
NextColor(c, current_color) ==
    IF c = <<"0">> THEN NoValue
    ELSE IF c \in DOMAIN ANSI_COLORS THEN ANSI_COLORS[c]
    ELSE current_color

\* for c in codes
RECURSIVE ApplyCodes(_, _)
ApplyCodes(codes, current_color) ==
    IF codes = <<>> THEN current_color
    ELSE ApplyCodes(Tail(codes), NextColor(Head(codes), current_color))

Segment(text, color) == [text |-> text, color |-> color]

\* for match in pattern.finditer(text), then the rest of the text.  Positions count
\* from 1: last_pos is the position after the previous match.
RECURSIVE ParseFrom(_, _, _, _)
ParseFrom(text, last_pos, current_color, segments) ==
    LET start == FindMatch(text, last_pos)
    IN IF start = 0
       THEN IF last_pos <= Len(text)
            THEN Append(segments,
                        Segment(SubSeq(text, last_pos, Len(text)), current_color))
            ELSE segments
       ELSE LET end   == MatchEnd(text, start)
                code  == SubSeq(text, start + 2, end - 1)
                before == IF start > last_pos
                          THEN Append(segments,
                                      Segment(SubSeq(text, last_pos, start - 1),
                                              current_color))
                          ELSE segments
            IN ParseFrom(text, end + 1, ApplyCodes(split(code), current_color), before)

parse_ansi(text) == ParseFrom(text, 1, NoValue, <<>>)

-----------------------------------------------------------------------------
(* Specification of parse_ansi alone: every text made of a few pieces *)

MaxPieces == 4

\* What the texts are made of: single characters, among them the ones of an escape
\* sequence, and three whole sequences (red, reset, a code that is no color).
Pieces ==
    { <<"x">>, <<ESC>>, <<"[">>, <<"m">>, <<";">>, <<"0">>, <<"1">>, <<"3">>,
      <<ESC, "[", "3", "1", "m">>, <<ESC, "[", "0", "m">>, <<ESC, "[", "9", "9", "m">> }

RECURSIVE Flatten(_)
Flatten(ps) == IF ps = <<>> THEN <<>> ELSE Head(ps) \o Flatten(Tail(ps))

Texts == {Flatten(ps) : ps \in UNION {[1..n -> Pieces] : n \in 0..MaxPieces}}

InitAnsi ==
    /\ Boot
    /\ fs = {}
    /\ undeletable = {}
    /\ unlistable = {}
    /\ listdir_reversed = FALSE
    /\ links = {}
    /\ input \in Texts
    /\ output = NoOutput

CallParseAnsi ==
    /\ ~output.done
    /\ output' = [done |-> TRUE, value |-> parse_ansi(input)]
    /\ UNCHANGED <<log_queue, poll_pc, text_widget, enqueued, status_var, pc, frame, proc,
                   emitted, os_vars, ui_vars, input>>

NextAnsi == CallParseAnsi

SpecAnsi == InitAnsi /\ [][NextAnsi]_vars

-----------------------------------------------------------------------------
(* C1 *)

\* The messages of a sequence of history entries.
MsgsOf(h) == [i \in 1..Len(h) |-> h[i].msg]

\* The subsequence of s whose first field is t.
RECURSIVE FromProducer(_, _)
FromProducer(s, t) ==
    IF s = <<>> THEN <<>>
    ELSE IF Head(s)[1] = t THEN <<Head(s)>> \o FromProducer(Tail(s), t)
    ELSE FromProducer(Tail(s), t)

\* C1: what the consumer has taken out, followed by what still waits, is exactly
\* the sequence of messages enqueued, in enqueue order (nothing lost, nothing
\* twice), and each producer's messages come out in the order it sent them.
C1_FifoExactlyOnce ==
    /\ text_widget \o log_queue = MsgsOf(enqueued)
    /\ \A t \in Producers :
         LET got == FromProducer(text_widget, t)
         IN \A i \in 1..Len(got) : got[i] = Msg(t, i)

\* Two producers have interleaved, the consumer has taken everything out and has
\* re-armed.
C1_Witness ==
    /\ Len(text_widget) = MaxMsgs
    /\ log_queue = <<>>
    /\ poll_pc = "armed"
    /\ \E i \in 1..(MaxMsgs - 2) :
         /\ text_widget[i][1] = "t1"
         /\ text_widget[i + 1][1] = "t2"
         /\ text_widget[i + 2][1] = "t1"

-----------------------------------------------------------------------------
(* C2, C3, C4: one run_command_stream call *)

\* A line as the process wrote it, without the newline that ends it.
WithoutNewline(line) ==
    IF line # <<>> /\ line[Len(line)] = NL THEN SubSeq(line, 1, Len(line) - 1) ELSE line

\* The lines the child of w has written, each without its newline, in the order written.
OutputLines(w) == [i \in 1..Len(proc[w].written) |-> WithoutNewline(proc[w].written[i])]

\* The call of w has returned without an error raised inside it.
ReturnedFromWait(w) == pc[w] = frame[w].ret /\ frame[w].ret # "" /\ frame[w].exc = ""

\* The call of w has returned through its except clause.
ReturnedFromExcept(w) == pc[w] = frame[w].ret /\ frame[w].ret # "" /\ frame[w].exc # ""

\* C2: the start label is enqueued before the child exists; a call that saw the
\* child exit with code 0 has enqueued the start label, then every line written,
\* in order and without its newline, then the finish label as the last message; it
\* returned after the child terminated, and the status is "Done".
C2_SuccessfulRun ==
    /\ proc["stream"].state # "none" =>
         /\ emitted["stream"] # <<>>
         /\ emitted["stream"][1] = Text("start")
    /\ (ReturnedFromWait("stream") /\ proc["stream"].returncode = 0) =>
         /\ emitted["stream"] = <<Text("start")>> \o OutputLines("stream") \o <<Text("finish")>>
         /\ proc["stream"].state = "exited"
         /\ status_var = "Done"

\* A call returned after exit code 0 with two different lines forwarded, the second
\* one written without a final newline.
C2_Witness ==
    /\ ReturnedFromWait("stream")
    /\ proc["stream"].returncode = 0
    /\ proc["stream"].written = << <<"a", NL>>, <<"b">> >>
    /\ Len(emitted["stream"]) = 4

\* C3: a call that saw a nonzero exit code has enqueued, after the start label and
\* all the forwarded lines, the line reporting that code; the status is "Error";
\* the finish label was not enqueued; the call has returned to its caller.
C3_NonzeroExit ==
    (ReturnedFromWait("stream") /\ proc["stream"].returncode # 0) =>
        /\ emitted["stream"] = <<Text("start")>> \o OutputLines("stream")
             \o << <<"Error: command returned exit code ", ToString(proc["stream"].returncode)>> >>
        /\ status_var = "Error"
        /\ \A i \in 1..Len(emitted["stream"]) : emitted["stream"][i] # Text("finish")
        /\ pc["stream"] = "returned"

\* A call returned after exit code 2 with a line forwarded.
C3_Witness ==
    /\ ReturnedFromWait("stream")
    /\ proc["stream"].returncode = 2
    /\ Len(proc["stream"].written) >= 1

\* C4: when Popen or readline raised, the error text is the last line enqueued, the
\* status is "Error", the finish label was not enqueued, and the call has returned
\* to its caller.
C4_RaisedInside ==
    (frame["stream"].exc # "" /\ pc["stream"] # "rcs_except") =>
        /\ emitted["stream"][Len(emitted["stream"])] = <<"Error: ", frame["stream"].exc>>
        /\ status_var = "Error"
        /\ \A i \in 1..Len(emitted["stream"]) : emitted["stream"][i] # Text("finish")
        /\ pc["stream"] = "returned"

\* Popen raised: the call returned with only the start label and the error line.
C4_Witness ==
    /\ ReturnedFromExcept("stream")
    /\ frame["stream"].exc = "OSError"
    /\ proc["stream"].state = "none"
    /\ Len(emitted["stream"]) = 2

-----------------------------------------------------------------------------
(* C5 .. C9: the pipelines *)

\* The steps worker w has noted in its current run.
Trail(w) == frame[w].trail
Has(q, x) == \E i \in 1..Len(q) : q[i] = x
LastOf(q) == q[Len(q)]

\* An entry x of q has an entry y somewhere before it.
Preceded(q, x, y) == \A i \in 1..Len(q) : q[i] = x => \E j \in 1..(i - 1) : q[j] = y

\* The positions of worker w inside run_command_stream.
InStream(w) == pc[w] \in {"rcs_start", "rcs_popen", "rcs_read", "rcs_wait", "rcs_except"}

\* What C5 asks of one step of the compile worker.
C5_Step ==
    /\ \* the regeneration call returns: its failure is reported in the status
       (InStream("compile") /\ pc'["compile"] = "regenerated") =>
          status_var' = IF frame'["compile"].exc # "" \/ proc'["compile"].returncode # 0
                        THEN "Error" ELSE "Done"
    /\ \* whatever it returned, the next step is the compile call
       (pc["compile"] = "regenerated" /\ pc'["compile"] # "regenerated") =>
          /\ pc'["compile"] = "rcs_start"
          /\ frame'["compile"].command = "dotnet UnrealBuildTool.dll"
          /\ LastOf(Trail("compile")') = "Compiling"
    /\ \* a run that regenerated does not end before the compile command was invoked
       (Has(Trail("compile")', "RegeneratingProjectFiles")
          /\ pc'["compile"] \in {"compiled", "return", "except"}) =>
          /\ Has(Trail("compile")', "Popen dotnet UnrealBuildTool.dll")
          /\ Preceded(Trail("compile")', "Compiling", "Popen Build.bat")

\* C5: in the compile pipeline, once both tool checks passed, the call that
\* regenerates the project files is always followed by the compile call, whether it
\* ended with exit code 0, a nonzero exit code or a spawn failure; a failed
\* regeneration sets the status to "Error" and the compile command is still invoked.
C5_CompileAfterRegeneration == [][C5_Step]_vars

\* The compile step is about to start after a regeneration whose spawn failed.
C5_Witness ==
    /\ pc["compile"] = "rcs_start"
    /\ LastOf(Trail("compile")) = "Compiling"
    /\ frame["compile"].exc = "OSError"
    /\ proc["compile"].state = "none"

\* The tool file each streamed step needs, and the command it spawns.
StreamedSteps ==
    { [step |-> "RegeneratingProjectFiles", tool |-> "Build.bat",
       found |-> "ToolFound Build.bat", absent |-> "ToolNotFound Build.bat",
       popen |-> "Popen Build.bat"],
      [step |-> "Compiling", tool |-> "UnrealBuildTool.dll",
       found |-> "ToolFound UnrealBuildTool.dll", absent |-> "ToolNotFound UnrealBuildTool.dll",
       popen |-> "Popen dotnet UnrealBuildTool.dll"],
      [step |-> "Packaging", tool |-> "RunUAT.bat",
       found |-> "ToolFound RunUAT.bat", absent |-> "ToolNotFound RunUAT.bat",
       popen |-> "Popen RunUAT.bat"] }

\* The line a pipeline logs when a tool file is absent under the engine root.
NotFoundLine(tool, root) ==
    CASE tool = "UnrealBuildTool.dll" ->
           <<"File '", root \o "\\Engine\\Binaries\\DotNET\\UnrealBuildTool\\UnrealBuildTool.dll",
             "' not found.">>
      [] tool = "Build.bat" ->
           <<"Build.bat file not found at: ", root \o "\\Engine\\Build\\BatchFiles\\Build.bat">>
      [] OTHER ->
           <<"RunUAT.bat file not found at: ", root \o "\\Engine\\Build\\BatchFiles\\RunUAT.bat">>

\* What has to stand before an entry of a trail: before a streamed step the finding of
\* its tool file, before a spawned process that and the step itself.
Requires ==
    [x \in {s.step : s \in StreamedSteps} \cup {s.popen : s \in StreamedSteps} |->
        {s.found : s \in {r \in StreamedSteps : r.step = x \/ r.popen = x}}
        \cup {s.step : s \in {r \in StreamedSteps : r.popen = x}}]

\* The streamed step whose tool file an entry reports absent.
AbsentTool ==
    [x \in {s.absent : s \in StreamedSteps} |-> CHOOSE s \in StreamedSteps : s.absent = x]

\* C6: in both pipelines every streamed step, and the process it spawns, comes after
\* the existence check of the tool file it needs; when a tool file is absent the
\* not-found line naming its path under the resolved engine root is the last line
\* logged, the run ends there, and the run has spawned and spawns no process.
C6_ToolChecked ==
    \A w \in Pipelines :
       LET t == Trail(w)
       IN \A i \in 1..Len(t) :
            /\ t[i] \in DOMAIN Requires =>
                 \A y \in Requires[t[i]] : \E j \in 1..(i - 1) : t[j] = y
            /\ t[i] \in DOMAIN AbsentTool =>
                 /\ i = Len(t)
                 /\ pc[w] = "return"
                 /\ LastOf(emitted[w]) =
                        NotFoundLine(AbsentTool[t[i]].tool, frame[w].unreal_engine_path)
                 /\ Truthy(frame[w].unreal_engine_path)
                 /\ \A s \in StreamedSteps : ~Has(t, s.popen)
                 /\ proc[w].state = "none"

\* A compile run has ended on the absent project-generation script, after the build
\* tool was found and the cleanup ran, while the package worker streams its process.
C6_Witness ==
    /\ pc["compile"] = "return"
    /\ LastOf(Trail("compile")) = "ToolNotFound Build.bat"
    /\ Has(Trail("compile"), "ToolFound UnrealBuildTool.dll")
    /\ Has(Trail("compile"), "Cleaning")
    /\ Has(Trail("package"), "Popen RunUAT.bat")

\* The run of worker w has ended on a terminal failure: no descriptor, no engine
\* version, a tool file not found, or (package, whose only step it is) a failed process.
TerminalFailure(w) ==
    /\ Trail(w) # <<>>
    /\ \/ LastOf(Trail(w)) \in {"NoDescriptor", "NoEngineVersion",
                                "ToolNotFound UnrealBuildTool.dll", "ToolNotFound Build.bat",
                                "ToolNotFound RunUAT.bat"}
       \/ /\ LastOf(Trail(w)) = "Popen RunUAT.bat"
          /\ frame[w].exc # "" \/ proc[w].returncode # 0

\* The status values that report an error.
ErrorStatuses == {"Error", "Error in Build UAT"}

\* What C7 asks of the step that ends a run.
C7_Step ==
    \A w \in Pipelines :
       (pc[w] # "return" /\ pc'[w] = "return" /\ TerminalFailure(w)') =>
          /\ emitted'[w] # <<>>
          /\ status_var' \in ErrorStatuses

\* C7: the step on which a pipeline run ends with a terminal failure (no descriptor,
\* no engine version, a tool file not found, a failed process) has logged a line and
\* leaves the status reporting an error, not the label set when the run was started.
C7_FailureSurfaced == [][C7_Step]_vars

\* C8: in both pipelines a run that finds no descriptor, or no non-empty
\* EngineAssociation in it, has logged the reason as its last line and has ended
\* there: it did nothing but locate (and read) the descriptor, resolved no engine
\* root, cleaned nothing and spawned nothing; and a run that resolves the engine
\* root has read a non-empty version.
C8_NoResolutionWithoutVersion ==
    \A w \in Pipelines :
       /\ Has(Trail(w), "NoDescriptor") =>
            /\ Trail(w) = <<"NoDescriptor">>
            /\ emitted[w] = << <<"No .uproject file found in the current directory.">> >>
       /\ Has(Trail(w), "NoEngineVersion") =>
            /\ Trail(w) = <<"LocatingProject", "NoEngineVersion">>
            /\ LastOf(emitted[w]) = <<"'EngineAssociation' key not found in the .uproject file.">>
       /\ (Has(Trail(w), "NoDescriptor") \/ Has(Trail(w), "NoEngineVersion")) =>
            /\ pc[w] = "return"
            /\ frame[w].unreal_engine_path = ""
            /\ frame[w].engine_version = ""
            /\ proc[w].state = "none"
       /\ (Has(Trail(w), "ResolvingEngine") \/ Has(Trail(w), "ResolvingEngine: registry lookup")) =>
            /\ frame[w].engine_version \notin {"", NoValue}
            /\ Preceded(Trail(w), "ResolvingEngine", "ReadingDescriptor")
            /\ Preceded(Trail(w), "ResolvingEngine: registry lookup", "ReadingDescriptor")

\* A package run has ended on a descriptor without engine version while a compile
\* run of the same project is past its engine resolution.
C8_Witness ==
    /\ pc["package"] = "return"
    /\ Trail("package") = <<"LocatingProject", "NoEngineVersion">>
    /\ Len(emitted["package"]) = 2
    /\ Has(Trail("compile"), "ResolvingEngine: registry lookup")

\* C9: once the compile pipeline has cleaned, the cleanup has run to its last line,
\* nothing was raised out of it, and the pipeline is at the check of the
\* project-generation script.
C9_CleaningNeverFails ==
    (Trail("compile") # <<>> /\ LastOf(Trail("compile")) = "Cleaning") =>
        /\ ~last_clean.raised
        /\ LastOf(emitted["compile"]) = <<"Cleanup completed successfully!">>
        /\ pc["compile"] = "check_script"

-----------------------------------------------------------------------------
(* C10: the cleanup passes *)

\* The names a pass tries to delete in a directory it visits.
FoldersTried(directory) ==
    IF directory = Root
    THEN {".vs", ".idea", "Binaries", "DerivedDataCache", "Intermediate", "Saved"}
    ELSE {".vs", "Binaries", "DerivedDataCache", "Intermediate", "Saved"}
FilesTried(directory, tree) ==
    IF directory = Root /\ tree \cap {<<"P.uproject">>, <<"Q.uproject">>} = {}
    THEN {}
    ELSE {"P.sln", ".vsconfig"}

\* The lines of a cleanup that report a deletion or a failed deletion.
IsDeletionLine(line) ==
    line[1] \in {"Removed folder: ", "Removed file: ", "Error removing folder ",
                 "Error removing file "}
DeletionLines(st) == {i \in 1..Len(st.log) : IsDeletionLine(st.log[i])}

\* C10: in a cleanup, a failed deletion is logged with the path and stops nothing:
\* in every directory visited every existing allow-listed folder and file was
\* attempted, and every directory left under Plugins was visited; an attempt either
\* removed the entry or logged the error line with its path; entries that do not
\* exist were not attempted and produced no line.
C10_DeletionsIndependent ==
    pc["cleaner"] \in {"returned", "raised"} =>
      LET st == last_clean
      IN /\ \A d \in st.visited :
              /\ \A n \in FoldersTried(d) :
                   (d \o <<n>>) \in st.before => (d \o <<n>>) \in st.attempted
              /\ \A n \in FilesTried(d, st.before) :
                   (d \o <<n>>) \in st.before => (d \o <<n>>) \in st.attempted
         /\ pc["cleaner"] = "returned" =>
              st.visited = {Root} \cup {d \in st.tree : /\ d[1] = "Plugins"
                                                      /\ d[Len(d)] \notin FileNames}
         /\ \A path \in st.attempted :
              /\ path \in st.before
              /\ IF path \in undeletable
                 THEN /\ path \in st.tree
                      /\ \E i \in DeletionLines(st) :
                           /\ st.log[i][1] \in {"Error removing folder ", "Error removing file "}
                           /\ Tail(st.log[i]) = path
                 ELSE /\ path \notin st.tree
                      /\ \E i \in DeletionLines(st) :
                           /\ st.log[i][1] \in {"Removed folder: ", "Removed file: "}
                           /\ Tail(st.log[i]) = path
         /\ \A i \in DeletionLines(st) : Tail(st.log[i]) \in st.attempted
         /\ Cardinality(DeletionLines(st)) = Cardinality(st.attempted)
         /\ emitted["cleaner"] = st.log

\* A cleanup returned after a root folder and a plugin folder could not be deleted:
\* the other entries of both directories were removed, and an allow-listed entry
\* that was absent left no line.
C10_Witness ==
    /\ pc["cleaner"] = "returned"
    /\ {<<"Binaries">>, <<"Plugins", "A", "Saved">>} \subseteq undeletable
    /\ {<<"Binaries">>, <<".idea">>, <<"P.sln">>, <<"Plugins", "A", "Saved">>,
        <<"Plugins", "A", ".vsconfig">>, <<"Plugins", "A", "Saved", "Binaries">>}
         \subseteq last_clean.attempted
    /\ <<"Plugins", "Binaries">> \notin last_clean.before
    /\ Cardinality(DeletionLines(last_clean)) = 6

-----------------------------------------------------------------------------
(* C11, C12: what a cleanup deletes and what it leaves *)

\* The directory is physically inside the working directory: no link on the way to
\* it, itself included.
InsideRoot(directory) == \A q \in links : ~IsPrefix(q, directory)

\* The paths a cleanup has deleted.
Deleted(st) == st.attempted \ st.tree

\* C11: every path a cleanup deletes is an allow-listed entry of the working
\* directory or of a directory at or below Plugins, every such directory is inside
\* the working directory, and no directory outside it is descended into, also when
\* an entry under Plugins is a link to a directory elsewhere.
C11_NothingOutsideRoot ==
    pc["cleaner"] \in {"returned", "raised"} =>
      LET st == last_clean
      IN /\ \A path \in Deleted(st) :
              /\ Parent(path) = Root \/ path[1] = "Plugins"
              /\ path[Len(path)] \in FoldersTried(Parent(path))
                                     \cup FilesTried(Parent(path), st.before)
              /\ InsideRoot(Parent(path))
         /\ \A d \in st.visited : InsideRoot(d)

\* The entries of a tree the passes are to delete: the allow-listed folders and files
\* of the working directory and of every directory at or below Plugins.
AtOrBelowPlugins(directory) == directory # Root /\ directory[1] = "Plugins"
Artifacts(tree) ==
    {path \in tree :
        /\ Parent(path) = Root \/ AtOrBelowPlugins(Parent(path))
        /\ path[Len(path)] \in FoldersTried(Parent(path))
                               \cup FilesTried(Parent(path), tree)}

\* C12: after a cleanup, on a tree without links where no deletion is refused, no
\* allow-listed folder is left in the working directory or in a directory at or
\* below Plugins, and the tree is what it was without the artifacts and what they
\* held: everything else is still there, also an allow-listed name below another
\* root subdirectory.
C12_PostCleanState ==
    (pc["cleaner"] \in {"returned", "raised"} /\ undeletable \cap last_clean.before = {}
       /\ links = {}) =>
      LET st == last_clean
      IN /\ \A path \in st.tree :
              (Parent(path) = Root \/ AtOrBelowPlugins(Parent(path))) =>
                 path[Len(path)] \notin FoldersTried(Parent(path))
         /\ st.tree = {q \in st.before : \A a \in Artifacts(st.before) : ~IsPrefix(a, q)}
         /\ fs = st.tree

-----------------------------------------------------------------------------
(* C13, C14, C15: the engine resolution *)

\* The lines that name the source of the path chosen.
SourceLines(lines) ==
    {i \in 1..Len(lines) : lines[i][1] \in {"Path defined by environment variable: ",
                                            "Path obtained from registry: ",
                                            "Using default path: "}}

\* C13: when UNREAL_ENGINE_PATH is set, whatever its value and whatever the registry
\* holds, the resolution returns that value as it is, without a registry lookup and
\* without the default path, and the only line logged names the environment variable
\* as the source.
C13_OverrideVerbatim ==
    (output.done /\ input.override # NoValue) =>
        /\ output.value.raised = ""
        /\ output.value.path = input.override
        /\ ~output.value.lookup
        /\ output.value.source = "environment"
        /\ output.value.log = << <<"Path defined by environment variable: ", input.override>> >>

\* C14: without an override the resolution returns the registry's directory exactly
\* when the registry has the entry and the directory exists, and otherwise the
\* default path made from the version; it always returns a path, and it logs exactly
\* one source line, the one of the path chosen.
C14_RegistryElseDefault ==
    (output.done /\ input.override = NoValue) =>
        /\ output.value.raised = ""
        /\ output.value.path # NoValue
        /\ output.value.lookup
        /\ Cardinality(SourceLines(output.value.log)) = 1
        /\ IF input.registry = "directory exists"
           THEN /\ output.value.path = InstalledDirectory
                /\ output.value.source = "registry"
                /\ LastOf(output.value.log) = <<"Path obtained from registry: ", InstalledDirectory>>
           ELSE /\ output.value.path = "C:\\Program Files\\Epic Games\\UE_" \o input.version
                /\ output.value.source = "default"
                /\ LastOf(output.value.log) = <<"Using default path: ", output.value.path>>

\* C15: a pipeline that has looked the engine up in the registry goes on to its
\* tool-file check with a path, however the lookup ended: nothing is raised to the
\* pipeline and the run does not end there.
C15_LookupFailureIsMiss ==
    \A w \in Pipelines :
       (Trail(w) # <<>> /\ LastOf(Trail(w)) = "ResolvingEngine: registry lookup") =>
           /\ pc[w] \in {"check_dll", "check_uat"}
           /\ frame[w].exc = ""
           /\ frame[w].unreal_engine_path \notin {"", NoValue}

-----------------------------------------------------------------------------
(* C16: the package pipeline *)

\* The entries of q that are x.
CountOf(q, x) == Cardinality({i \in 1..Len(q) : q[i] = x})

\* What C16 asks of one step.
C16_Step ==
    /\ \* the files change only in the cleaning step of the compile worker
       fs' # fs => (pc["compile"] = "clean" /\ pc'["compile"] # "clean")
    /\ \* the package run has not cleaned, regenerated or compiled, and has spawned
       \* nothing but the packaging command, once, after finding its script (looked at
       \* whenever the run has moved on)
       LET t == Trail("package")'
       IN frame'["package"] # frame["package"] =>
          /\ \A x \in {"Cleaning", "RegeneratingProjectFiles", "Compiling", "Popen Build.bat",
                       "Popen dotnet UnrealBuildTool.dll", "ToolFound Build.bat",
                       "ToolFound UnrealBuildTool.dll"} : ~Has(t, x)
          /\ CountOf(t, "Popen RunUAT.bat") <= 1
          /\ CountOf(t, "Packaging") <= 1
          /\ Preceded(t, "Popen RunUAT.bat", "ToolFound RunUAT.bat")
          /\ frame'["package"].command \in {"", "RunUAT.bat"}
    /\ \* when the packaging call returns the run is over, with the status of that call
       (InStream("package") /\ ~InStream("package")') =>
          /\ pc'["package"] = "return"
          /\ status_var' = IF frame'["package"].exc = "" /\ proc'["package"].returncode = 0
                           THEN "Done" ELSE "Error"
    /\ \* and the end of the run leaves the status alone
       (pc["package"] = "return" /\ pc'["package"] # "return") =>
          (pc'["package"] = "idle" /\ status_var' = status_var)

\* C16: a package run deletes nothing and neither regenerates nor compiles; after the
\* preamble it spawns at most one process, the packaging command, and only after
\* finding the packaging script under the engine root; the run ends when that call
\* returns, with the status that call has set.
C16_PackageOnlyPackages == [][C16_Step]_vars

\* A package run has ended on the nonzero exit of its one process, in a directory the
\* compile worker has cleaned.
C16_Witness ==
    /\ pc["package"] = "return"
    /\ CountOf(Trail("package"), "Popen RunUAT.bat") = 1
    /\ proc["package"].returncode = 1
    /\ status_var = "Error"
    /\ <<"Binaries">> \in last_clean.attempted
    /\ <<"Binaries">> \notin fs

-----------------------------------------------------------------------------
(* C17, C18: parse_ansi *)

\* The characters allowed between "[" and "m" in a color escape sequence.
Parameters == {"0", "1", "2", "3", "4", "5", "6", "7", "8", "9", ";"}

\* The length of the color escape sequence the text starts with, 0 if it starts with none.
EscapeLen(text) ==
    LET Ends == {n \in 3..Len(text) : /\ text[1] = "ESC"
                                      /\ text[2] = "["
                                      /\ text[n] = "m"
                                      /\ \A k \in 3..(n - 1) : text[k] \in Parameters}
    IN IF Ends = {} THEN 0 ELSE CHOOSE n \in Ends : TRUE

Drop(q, n) == SubSeq(q, n + 1, Len(q))

\* The text with every color escape sequence removed.
RECURSIVE Strip(_)
Strip(text) ==
    IF text = <<>> THEN <<>>
    ELSE IF EscapeLen(text) > 0 THEN Strip(Drop(text, EscapeLen(text)))
    ELSE <<Head(text)>> \o Strip(Tail(text))

RECURSIVE Concat(_)
Concat(segments) ==
    IF segments = <<>> THEN <<>> ELSE Head(segments).text \o Concat(Tail(segments))

Parsed == output.done

\* C17: the texts of the segments parse_ansi returns, in order, make up the input with
\* every color escape sequence removed; the empty input gives no segment, and an input
\* without escape sequences gives one segment, with no color.
C17_SegmentsAreTheText ==
    Parsed =>
        /\ Concat(output.value) = Strip(input)
        /\ input = <<>> => output.value = <<>>
        /\ (input # <<>> /\ Strip(input) = input) =>
                output.value = <<[text |-> input, color |-> NoValue]>>

\* A text with a lone escape character, then two escape sequences with a plain
\* character between them, has been parsed: the lone character is text.
C17_Witness ==
    /\ Parsed
    /\ input = <<"ESC", "ESC", "[", "3", "1", "m", "x", "ESC", "[", "9", "9", "m">>
    /\ Concat(output.value) = <<"ESC", "x">>
    /\ Len(output.value) = 2

\* The eight base colors, in the order of the codes 30 to 37.
BaseColor ==
    [d \in {"0", "1", "2", "3", "4", "5", "6", "7"} |->
        CASE d = "0" -> "ansi_black"   [] d = "1" -> "ansi_red"
          [] d = "2" -> "ansi_green"   [] d = "3" -> "ansi_yellow"
          [] d = "4" -> "ansi_blue"    [] d = "5" -> "ansi_magenta"
          [] d = "6" -> "ansi_cyan"    [] d = "7" -> "ansi_white"]

\* The color after one code.
After(code, color) ==
    IF code = <<"0">> THEN NoValue
    ELSE IF Len(code) = 2 /\ code[1] = "3" /\ code[2] \in DOMAIN BaseColor
         THEN BaseColor[code[2]]
    ELSE color

\* The color after the codes of one escape sequence, taken left to right: params is
\* what is left of the sequence's parameters, code the characters of the code being read.
RECURSIVE AfterSequence(_, _, _)
AfterSequence(params, code, color) ==
    IF params = <<>> THEN After(code, color)
    ELSE IF Head(params) = ";" THEN AfterSequence(Tail(params), <<>>, After(code, color))
    ELSE AfterSequence(Tail(params), Append(code, Head(params)), color)

\* Every character of the text outside the escape sequences, with the color in effect
\* where it stands.
RECURSIVE Painted(_, _)
Painted(text, color) ==
    IF text = <<>> THEN <<>>
    ELSE LET n == EscapeLen(text)
         IN IF n > 0
            THEN Painted(Drop(text, n), AfterSequence(SubSeq(text, 3, n - 1), <<>>, color))
            ELSE << <<Head(text), color>> >> \o Painted(Tail(text), color)

\* The characters of the segments, each with its segment's color.
RECURSIVE Characters(_)
Characters(segments) ==
    IF segments = <<>> THEN <<>>
    ELSE [i \in 1..Len(Head(segments).text) |->
              <<Head(segments).text[i], Head(segments).color>>]
         \o Characters(Tail(segments))

-----------------------------------------------------------------------------
(* C19: one drain of the consumer *)

\* What C19 asks of one step.
C19_Step ==
    /\ \* a drain ends only on an empty queue, taking nothing more, and re-arms the poll
       (poll_pc = "draining" /\ poll_pc' # "draining") =>
            /\ log_queue = <<>>
            /\ poll_pc' = "armed"
            /\ log_queue' = log_queue
            /\ text_widget' = text_widget
    /\ \* on a queue that holds something, what the consumer does is take its head
       (poll_pc = "draining" /\ log_queue # <<>> /\ text_widget' # text_widget) =>
            /\ text_widget' = Append(text_widget, Head(log_queue))
            /\ log_queue' = Tail(log_queue)
            /\ poll_pc' = "draining"
    /\ \* nothing is taken outside a drain, and nothing but the head ever leaves the queue
       text_widget' # text_widget => poll_pc = "draining"
    /\ Len(log_queue') < Len(log_queue) => (poll_pc = "draining" /\ log_queue' = Tail(log_queue))

\* C19: a drain never waits: in the loop the consumer can always go on by itself, taking
\* the head of a queue that holds something and ending on an empty one; it ends only
\* when nothing is left, and ending re-arms the poll.
C19_DrainNeverBlocks ==
    /\ [](poll_pc = "draining" => ENABLED (PollGet \/ PollEmpty))
    /\ [](poll_pc = "draining" /\ log_queue = <<>> => ENABLED PollEmpty)
    /\ [][C19_Step]_vars

\* A drain that has taken every message has ended and the poll is armed again.
C19_Witness ==
    /\ poll_pc = "armed"
    /\ log_queue = <<>>
    /\ Len(text_widget) = MaxMsgs

-----------------------------------------------------------------------------
(* C20: the output is streamed *)

\* The lines the call of w has read from its child so far.
LinesRead(w) == Len(proc[w].written) - Len(proc[w].pipe)

\* C20: while the call reads its child's output, every line read so far has been
\* enqueued, after the start label and in the order written, and nothing else: no line
\* is kept back until the child ends.
C20_OutputStreamed ==
    \A w \in Workers :
        pc[w] = "rcs_read" =>
            /\ Len(emitted[w]) = 1 + LinesRead(w)
            /\ \A i \in 1..LinesRead(w) : emitted[w][1 + i] = OutputLines(w)[i]

\* The consumer has drained an output line while the child that wrote it is running and
\* the call has enqueued neither its finish label nor an error line.
C20_Witness ==
    /\ pc["stream"] = "rcs_read"
    /\ proc["stream"].state = "running"
    /\ proc["stream"].written = << <<"a", NL>> >>
    /\ emitted["stream"] = << <<"start">>, <<"a">> >>
    /\ text_widget = << <<"start">>, <<"a">> >>
    /\ log_queue = <<>>

-----------------------------------------------------------------------------
(* C21: the two lists of folder names *)

\* The names in a list.
Names(q) == {q[i] : i \in 1..Len(q)}

\* C21: in every directory a cleanup has worked on, the folders it has tried to delete
\* are the same by name in the working directory and at or below Plugins: a folder of a
\* plugin directory is tried exactly if the root pass tries folders of its name, and a
\* folder of the working directory exactly if the plugin pass tries folders of its name.
C21_SameAllowList ==
    pc["cleaner"] \in {"returned", "raised"} =>
      LET st == last_clean
      IN \A path \in st.before :
            (isdir(st.before, path) /\ Parent(path) \in st.visited) =>
               LET name == path[Len(path)]
               IN IF Parent(path) = Root
                  THEN path \in st.attempted <=> name \in Names(PluginFolders)
                  ELSE path \in st.attempted <=> name \in Names(RootFolders)

-----------------------------------------------------------------------------
(* C22: one worker per pipeline *)

\* The button that starts the worker w.
ButtonOf(w) == IF w = "compile" THEN compile_btn ELSE package_btn

\* A worker thread of w exists.
Running(w) == pc[w] # "idle"

\* What C22 asks of one step.
C22_Step ==
    \A w \in Pipelines :
       /\ \* the button is disabled exactly while the worker exists
          Running(w) <=> ButtonOf(w) = "disabled"
       /\ Running(w)' <=> ButtonOf(w)' = "disabled"
       /\ \* a worker starts only from the enabled button, with no worker of its kind
          \* left, and the button is disabled in the step that starts it
          (pc'[w] = "locate" /\ pc[w] # "locate") =>
              /\ ~Running(w)
              /\ ButtonOf(w) = "normal"
              /\ ButtonOf(w)' = "disabled"
       /\ \* the button is enabled again only by the step that ends the worker
          (ButtonOf(w) = "disabled" /\ ButtonOf(w)' = "normal") =>
              (pc[w] = "return" /\ ~Running(w)')

\* C22: the button of a pipeline is disabled in the step that starts its worker and
\* stays disabled until the worker has ended, and a worker starts only from the enabled
\* button: no worker is started while one of its kind exists.
C22_OneWorkerPerPipeline == [][C22_Step]_vars

\* A compile worker and a package worker exist together, both buttons disabled, both
\* having logged, the status being the one the package worker has set last.
C22_Witness ==
    /\ Running("compile")
    /\ Running("package")
    /\ compile_btn = "disabled"
    /\ package_btn = "disabled"
    /\ emitted["compile"] # <<>>
    /\ emitted["package"] # <<>>
    /\ pc["compile"] = "rcs_read"
    /\ pc["package"] = "rcs_read"
    /\ status_var = "Starting Build UAT..."

-----------------------------------------------------------------------------
(* C23: the buttons come back *)

\* C23: under fair scheduling, with every spawned process terminating, a disabled
\* button is enabled again: every run of either pipeline, however it goes, returns and
\* its worker enables the button that started it.
C23_ButtonReenabled ==
    \A w \in Pipelines : (ButtonOf(w) = "disabled") ~> (ButtonOf(w) = "normal")

\* A compile run whose cleanup raised, and which so went through the except clause of
\* the pipeline, has ended and its button is enabled again.
C23_Witness ==
    /\ compile_btn = "normal"
    /\ pc["compile"] = "idle"
    /\ last_clean.raised
    /\ package_btn = "normal"

-----------------------------------------------------------------------------
(* C24: the end of a compile run, no package worker running *)

ClosingLine == <<"\nProject files compiled successfully.">>

\* The compile worker is past its compile call.
PastCompiling ==
    /\ Has(Trail("compile"), "Compiling")
    /\ pc["compile"] \in {"compiled", "except", "return"}

\* What C24 asks of one step.
C24_Step ==
    /\ \* the compile call returns: the status is "Done" for exit code 0 and "Error" for
       \* anything else, whatever it was before
       (InStream("compile") /\ pc'["compile"] = "compiled") =>
           status_var' = IF frame'["compile"].exc = "" /\ proc'["compile"].returncode = 0
                         THEN "Done" ELSE "Error"
    /\ \* from there to the end of the run the status stays
       (PastCompiling /\ pc["package"] = "idle" /\ pc'["package"] = "idle") =>
           status_var' = status_var
    /\ \* and the next thing the worker enqueues is the closing line
       (pc["compile"] = "compiled" /\ pc'["compile"] # "compiled") =>
           /\ Len(log_queue') > Len(log_queue)
           /\ log_queue'[Len(log_queue) + 1] = ClosingLine
           /\ emitted'["compile"][1] = ClosingLine

\* C24: in a compile run that gets to its compile call, with no package worker, the
\* status at the end is the one that call has set, "Done" for exit code 0 and "Error"
\* otherwise, whatever the regeneration did; and the run goes on to enqueue the closing
\* line after that call, whatever the two exit codes.
C24_CompileDecidesStatus ==
    /\ [][C24_Step]_vars
    /\ Has(Trail("compile"), "Compiling") ~> Has(Trail("compile"), "Finishing")

\* A compile run ends after a failed compilation: the closing line is the last thing
\* it has logged, and the status is "Error".
C24_Witness ==
    /\ pc["compile"] = "return"
    /\ Has(Trail("compile"), "Compiling")
    /\ LastOf(Trail("compile")) = "Finishing"
    /\ emitted["compile"] = <<ClosingLine>>
    /\ status_var = "Error"
    /\ pc["package"] = "idle"

-----------------------------------------------------------------------------
(* C25: every message is rendered *)

\* The message is in the channel / in the widget.
InChannel(message) == \E i \in 1..Len(log_queue) : log_queue[i] = message
Rendered(message) == \E i \in 1..Len(text_widget) : text_widget[i] = message

\* C25: with the poll kept scheduled, every message a producer has put in the channel
\* gets inserted in the widget, whenever it was put: before a drain, during one, or as
\* the last thing its producer did.
C25_EveryMessageRendered ==
    \A t \in Producers : \A n \in 1..MaxMsgs :
        InChannel(Msg(t, n)) ~> Rendered(Msg(t, n))

\* The producers have put their last message; a drain is going on, with messages of
\* both rendered in part and a message still in the channel.
C25_Witness ==
    /\ Len(enqueued) = MaxMsgs
    /\ poll_pc = "draining"
    /\ log_queue # <<>>
    /\ \E t \in Producers : \E n \in 1..MaxMsgs : Rendered(Msg(t, n))
    /\ \A t \in Producers : SentBy(t) > 0

====
